---- MODULE Spec2Model ----
(***************************************************************************)
(* forgeflow-core: API-key authentication (app/api/auth.py,                *)
(* app/core/security.py) and flow-run records (app/api/flows.py,           *)
(* app/models/*.py) as a state machine over the relational store.          *)
(*                                                                         *)
(* Every request runs on its own session against the shared store; the     *)
(* steps of a handler that touch the store (a query, a commit, the reload  *)
(* of an expired attribute) are separate actions, so that other requests   *)
(* and deletions interleave exactly where the database lets them.          *)
(***************************************************************************)
EXTENDS Integers, Sequences, FiniteSets, TLC

VARIABLES
    clock,          \* datetime.now(timezone.utc), in ticks
    db_available,   \* get_db() yields a session (DATABASE_URL is configured)
    users,          \* table users: the set of ids
    api_keys,       \* table api_keys: the rows, in the order a scan returns them
    projects,       \* table projects
    flows,          \* table flows
    flow_runs,      \* table flow_runs
    next_id,        \* the id sequence of each table
    req,            \* per request slot: the handler's position and locals
    key_file        \* the two files admin_api_key.txt, and where the second one lies

flow_tables == <<projects, flows, flow_runs, next_id>>
vars == <<clock, db_available, users, api_keys, flow_tables, req, key_file>>

----------------------------------------------------------------------------
(* Bounds of the model *)

MaxTime == 1        \* the clock runs 0..MaxTime
MaxKeys == 2        \* rows of api_keys in the initial store
MaxRows == 2        \* ids of users that the seeds draw, and of runs that overlapping calls create
MaxRuns == 1        \* runs the sequential calls create and the lifecycle follows
MaxFlows == 1       \* flows that create_flow adds
MaxProjects == 1    \* projects that create_project adds to the initial ones
MaxTail == 2        \* characters of a long secret after its run of ASCII letters
MaxSlack == 3       \* how far below the truncation boundary that run may end

(* nullable columns: last_used_at, expires_at, started_at, completed_at *)
NULL == -1

(* no admin_api_key.txt on the disk *)
\* a file that does not exist, one that open(..., "w") has just truncated,
\* and one with the line "API Key: <api_key>"
NoFile == [exists |-> FALSE, api_key |-> <<>>]
EmptyFile == [exists |-> TRUE, api_key |-> <<>>]
KeyFile(api_key) == [exists |-> TRUE, api_key |-> api_key]
\* project_root, the directory of main.py, is the working directory, or
\* /app, or neither
Layouts == {"cwd", "/app", "elsewhere"}
NoFiles == [tmp |-> NoFile, root |-> NoFile, project_root |-> "cwd"]

Reqs == {1, 2}      \* request slots that run concurrently (reused)
Sequential == {1}   \* one request at a time
UserIds == {1, 2}
Times == 0..MaxTime

(* bearer secrets, as sequences of code points: "ff_a", "ff_b" *)
KeyA == <<102, 102, 95, 97>>
KeyB == <<102, 102, 95, 98>>
Secrets == {KeyA, KeyB}
\* a secret no credential was issued for
KeyC == <<102, 102, 95, 99>>
Bearers == Secrets \cup {KeyC}

----------------------------------------------------------------------------
(* app/core/security.py *)

RECURSIVE Utf8Encode(_)
Utf8Bytes(cp) ==
    IF cp < 128 THEN <<cp>>
    ELSE IF cp < 2048 THEN <<192 + (cp \div 64), 128 + (cp % 64)>>
    ELSE IF cp < 65536 THEN
        <<224 + (cp \div 4096), 128 + ((cp \div 64) % 64), 128 + (cp % 64)>>
    ELSE <<240 + (cp \div 262144), 128 + ((cp \div 4096) % 64),
           128 + ((cp \div 64) % 64), 128 + (cp % 64)>>

(* str.encode('utf-8') *)
Utf8Encode(s) ==
    IF s = <<>> THEN <<>> ELSE Utf8Bytes(Head(s)) \o Utf8Encode(Tail(s))

Utf8SeqLen(b) ==
    IF b < 128 THEN 1
    ELSE IF b >= 240 THEN 4
    ELSE IF b >= 224 THEN 3
    ELSE IF b >= 192 THEN 2
    ELSE 0      \* a continuation byte with no lead byte

Utf8CodePoint(bs) ==
    IF Len(bs) = 1 THEN bs[1]
    ELSE IF Len(bs) = 2 THEN (bs[1] - 192) * 64 + (bs[2] - 128)
    ELSE IF Len(bs) = 3 THEN
        (bs[1] - 224) * 4096 + (bs[2] - 128) * 64 + (bs[3] - 128)
    ELSE (bs[1] - 240) * 262144 + (bs[2] - 128) * 4096
         + (bs[3] - 128) * 64 + (bs[4] - 128)

(* bytes.decode('utf-8', errors='ignore'): bytes that begin no complete
   sequence are dropped *)
RECURSIVE Utf8DecodeIgnore(_)
Utf8DecodeIgnore(bs) ==
    IF bs = <<>> THEN <<>>
    ELSE LET n == Utf8SeqLen(Head(bs)) IN
         IF n = 0 THEN Utf8DecodeIgnore(Tail(bs))
         ELSE IF n > Len(bs) THEN <<>>
         ELSE <<Utf8CodePoint(SubSeq(bs, 1, n))>>
              \o Utf8DecodeIgnore(SubSeq(bs, n + 1, Len(bs)))

(* the truncation hash_api_key and verify_api_key both apply *)
BcryptMargin == 60

Truncate(api_key) ==
    LET api_key_bytes == Utf8Encode(api_key) IN
    IF Len(api_key_bytes) > BcryptMargin
    THEN Utf8DecodeIgnore(SubSeq(api_key_bytes, 1, BcryptMargin))
    ELSE api_key

(* pwd_context.hash: bcrypt of the password under a fresh random salt *)
hash_api_key(api_key, salt) ==
    [salt |-> salt, digest |-> Truncate(api_key)]

(* mutant of verify_api_key: the presented key is compared as it came *)
verify_api_key_untruncated(plain_key, hashed_key) ==
    plain_key = hashed_key.digest

(* pwd_context.verify: recompute under the stored salt and compare *)
verify_api_key(plain_key, hashed_key) ==
    Truncate(plain_key) = hashed_key.digest

----------------------------------------------------------------------------
(* The store *)

ApiKeyRow(id, user_id, key_hash, expires_at) ==
    [id |-> id, user_id |-> user_id, key_hash |-> key_hash,
     expires_at |-> expires_at, last_used_at |-> NULL,
     \* history, for the properties only: the slot whose commit wrote the row last
     written_by |-> NULL]

KeyIds(rows) == {rows[i].id : i \in 1..Len(rows)}

RowOf(rows, id) == CHOOSE i \in 1..Len(rows) : rows[i].id = id

(* ForeignKey("users.id", ondelete="CASCADE") on api_keys.user_id *)
CascadeApiKeys(rows, remaining) ==
    SelectSeq(rows, LAMBDA k : k.user_id \in remaining)

(* app/models/flow_run.py: FlowRunStatus *)
PENDING == "pending"
RUNNING == "running"
COMPLETED == "completed"
FAILED == "failed"
CANCELLED == "cancelled"
FlowRunStatus == {PENDING, RUNNING, COMPLETED, FAILED, CANCELLED}

(* app/models/project.py, flow.py, flow_run.py: the columns the handlers
   read or set *)
ProjectRow(id, owner_id) == [id |-> id, owner_id |-> owner_id]

FlowRow(id, project_id) == [id |-> id, project_id |-> project_id]

(* mutant of FlowRunRow: the record is created as already started *)
FlowRunRowStarted(id, flow_id, status) ==
    [id |-> id, flow_id |-> flow_id, status |-> RUNNING,
     started_at |-> 0, completed_at |-> NULL]

(* FlowRun(flow_id=..., status=...): started_at and completed_at are
   nullable columns with no default *)
FlowRunRow(id, flow_id, status) ==
    [id |-> id, flow_id |-> flow_id, status |-> status,
     started_at |-> NULL, completed_at |-> NULL]

Ids(rows) == {rows[i].id : i \in 1..Len(rows)}

(* mutant of AllocId: the id is computed from the rows that are left *)
AllocIdByCount(rows, seq) == Len(rows) + 1

(* mapped_column(primary_key=True): the id comes from the table's sequence,
   which never hands out a value twice *)
AllocId(rows, seq) == seq

(* ForeignKey(..., ondelete="CASCADE"): the rows whose parent is left *)
CascadeProjects(rows, remaining_users) ==
    SelectSeq(rows, LAMBDA p : p.owner_id \in remaining_users)

CascadeFlows(rows, remaining_projects) ==
    SelectSeq(rows, LAMBDA f : f.project_id \in Ids(remaining_projects))

(* mutant of CascadeRuns: the foreign key is declared ondelete="SET NULL" *)
CascadeRunsSetNull(rows, remaining_flows) ==
    [i \in 1..Len(rows) |->
        IF rows[i].flow_id \in Ids(remaining_flows)
        THEN rows[i]
        ELSE [rows[i] EXCEPT !.flow_id = NULL]]

CascadeRuns(rows, remaining_flows) ==
    SelectSeq(rows, LAMBDA x : x.flow_id \in Ids(remaining_flows))

----------------------------------------------------------------------------
(* A request slot *)

Idle ==
    [pc |-> "idle", credentials |-> FALSE, api_key |-> KeyA,
     api_keys |-> <<>>, idx |-> 0, matching_key |-> NULL,
     last_used_at |-> NULL, user_id |-> NULL,
     outcome |-> "none", user |-> NULL,
     op |-> "me", arg |-> NULL, row |-> NULL, response |-> <<>>,
     \* history, for the properties only
     examined |-> {}, query_time |-> NULL, scan_time |-> NULL, wrote |-> {}, commit_raised |-> FALSE]

(* HTTPException.status_code of each outcome *)
StatusCode(outcome) ==
    CASE outcome = "MissingCredential" -> 401
      [] outcome = "StoreUnavailable" -> 503
      [] outcome = "InvalidOrExpired" -> 401
      [] outcome = "IdentityMissing" -> 404
      [] outcome = "ServerError" -> 500
      [] outcome = "Identity" -> 200
      [] outcome = "NotFoundOrForbidden" -> 404
      [] outcome = "Created" -> 201
      [] OTHER -> 0

Finish(r, outcome, user) ==
    req' = [req EXCEPT ![r].pc = "done", ![r].outcome = outcome, ![r].user = user]

(* mutants of Expired: the boundary instant counts as expired; the
   comparison is reversed *)
ExpiredAtBoundary(key, now) == key.expires_at # NULL /\ key.expires_at <= now
ExpiredReversed(key, now) == key.expires_at # NULL /\ key.expires_at > now

(* key.expires_at and key.expires_at < datetime.now(timezone.utc) *)
Expired(key, now) == key.expires_at # NULL /\ key.expires_at < now

----------------------------------------------------------------------------
(* get_current_user, app/api/auth.py *)

(* a request arrives: with or without a bearer secret *)
Arrive(r) ==
    /\ req[r].pc = "idle"
    /\ \E c \in BOOLEAN :
         req' = [req EXCEPT ![r].pc = "entry", ![r].credentials = c, ![r].api_key = KeyA]
    /\ UNCHANGED <<key_file, clock, db_available, users, api_keys, flow_tables>>

(* mutant of EntryOutcome: the store is checked before the header *)
EntryOutcomeStoreFirst(credentials, db) ==
    IF ~db THEN "StoreUnavailable"
    ELSE IF ~credentials THEN "MissingCredential"
    ELSE "none"

(* lines 41-51: the two guards, in this order *)
EntryOutcome(credentials, db) ==
    IF ~credentials THEN "MissingCredential"
    ELSE IF ~db THEN "StoreUnavailable"
    ELSE "none"

Entry(r) ==
    /\ req[r].pc = "entry"
    /\ LET o == EntryOutcome(req[r].credentials, db_available) IN
       IF o # "none" THEN Finish(r, o, NULL)
       ELSE req' = [req EXCEPT ![r].pc = "query"]
    /\ UNCHANGED <<key_file, clock, db_available, users, api_keys, flow_tables>>

(* the orders in which a SELECT with no ORDER BY may return `rows`: the
   store is free to return them in any order *)
Orders(rows) ==
    {[i \in 1..Len(rows) |-> rows[p[i]]] : p \in Permutations(1..Len(rows))}

(* line 57: api_keys = db.query(ApiKey).all(); the query has no order_by *)
QueryKeys(r) ==
    /\ req[r].pc = "query"
    /\ \E order \in Orders(api_keys) :
          req' = [req EXCEPT ![r].pc = "scan", ![r].api_keys = order,
                             ![r].idx = 1,
                             ![r].query_time = clock, ![r].scan_time = clock]
    /\ UNCHANGED <<key_file, clock, db_available, users, api_keys, flow_tables>>

(* mutant of ScanVerdict: the loop breaks on the hash match alone *)
ScanVerdictHashOnly(api_key, key, now) ==
    IF verify_api_key(api_key, key.key_hash) THEN "match" ELSE "skip"

(* lines 60-70, one iteration: what the loop does with `key` at time `now`:
   "skip" (no hash match, or continue on expiry) or "match" (break) *)
ScanVerdict(api_key, key, now) ==
    IF verify_api_key(api_key, key.key_hash)
    THEN IF Expired(key, now) THEN "skip" ELSE "match"
    ELSE "skip"

ScanStep(r) ==
    /\ req[r].pc = "scan"
    /\ req[r].idx <= Len(req[r].api_keys)
    /\ LET i == req[r].idx
           v == ScanVerdict(req[r].api_key, req[r].api_keys[i], clock)
       IN req' = [req EXCEPT
                    ![r].examined = @ \cup {i},
                    ![r].scan_time = clock,
                    ![r].idx = IF v = "match" THEN @ ELSE @ + 1,
                    ![r].matching_key = IF v = "match" THEN i ELSE @,
                    ![r].pc = IF v = "match" THEN "stamp" ELSE "scan"]
    /\ UNCHANGED <<key_file, clock, db_available, users, api_keys, flow_tables>>

(* lines 72-76: the loop ended with matching_key None *)
ScanEnd(r) ==
    /\ req[r].pc = "scan"
    /\ req[r].idx > Len(req[r].api_keys)
    /\ Finish(r, "InvalidOrExpired", NULL)
    /\ UNCHANGED <<key_file, clock, db_available, users, api_keys, flow_tables>>

(* line 68: key.last_used_at = datetime.now(timezone.utc), on the session's
   object; a second reading of the clock *)
Stamp(r) ==
    /\ req[r].pc = "stamp"
    /\ req' = [req EXCEPT ![r].pc = "commit", ![r].last_used_at = clock]
    /\ UNCHANGED <<key_file, clock, db_available, users, api_keys, flow_tables>>

(* mutant of WriteLastUsed: the timestamp never reaches the row *)
WriteNothing(rows, id, t) == rows

(* line 69, the flush: UPDATE api_keys SET last_used_at WHERE id = key.id.
   The table is kept by id; the order in which a query returns its rows is
   chosen at the query (Orders) *)
WriteLastUsed(rows, id, t) ==
    [i \in 1..Len(rows) |->
        IF rows[i].id = id THEN [rows[i] EXCEPT !.last_used_at = t] ELSE rows[i]]

WrittenBy(rows, id, r) ==
    [i \in 1..Len(rows) |->
        IF rows[i].id = id THEN [rows[i] EXCEPT !.written_by = r] ELSE rows[i]]

(* line 69: db.commit(). It raises when the store fails, and when the row is
   gone (the UPDATE matches no row); nothing is written then, and the
   exception leaves get_current_user: there is no handler around it. *)
CommitOutcome(raised) == IF raised THEN "ServerError" ELSE "none"

CommitWith(r, fails) ==
    /\ req[r].pc = "commit"
    /\ LET key == req[r].api_keys[req[r].matching_key]
           raised == fails \/ key.id \notin KeyIds(api_keys)
       IN IF raised
          THEN /\ req' = [req EXCEPT ![r].commit_raised = TRUE,
                            ![r].pc = IF CommitOutcome(TRUE) = "none" THEN "reload" ELSE "done",
                            ![r].outcome = CommitOutcome(TRUE)]
               /\ UNCHANGED api_keys
          ELSE /\ api_keys' = WrittenBy(WriteLastUsed(api_keys, key.id, req[r].last_used_at),
                                       key.id, r)
               /\ req' = [req EXCEPT ![r].pc = "reload", ![r].wrote = @ \cup {key.id}]
    /\ UNCHANGED <<key_file, clock, db_available, users, flow_tables>>

Commit(r) == \E fails \in BOOLEAN : CommitWith(r, fails)

(* line 79, matching_key.user_id: the commit expired the object
   (sessionmaker's expire_on_commit), so the attribute is reloaded from its
   row; ObjectDeletedError when the row is gone *)
Reload(r) ==
    /\ req[r].pc = "reload"
    /\ LET key == req[r].api_keys[req[r].matching_key] IN
       IF key.id \in KeyIds(api_keys)
       THEN req' = [req EXCEPT ![r].pc = "user",
                      ![r].user_id = api_keys[RowOf(api_keys, key.id)].user_id]
       ELSE Finish(r, "ServerError", NULL)
    /\ UNCHANGED <<key_file, clock, db_available, users, api_keys, flow_tables>>

(* mutant of UserOutcome: a missing owner is reported as a bad key *)
UserOutcomeBadKey(user) == IF user = NULL THEN "InvalidOrExpired" ELSE "Identity"

(* lines 79-86: db.query(User).filter(User.id == user_id).first() *)
UserOutcome(user) == IF user = NULL THEN "IdentityMissing" ELSE "Identity"

(* the request once get_current_user has returned current_user to a
   handler: the locals of get_current_user are gone *)
Handover(q, user) ==
    [Idle EXCEPT !.pc = "handler", !.credentials = q.credentials,
                 !.api_key = q.api_key, !.op = q.op, !.arg = q.arg,
                 !.user = user]

(* get_current_user returns to its caller: the route /me answers with the
   identity, create_project, create_flow and run_flow go on with it as
   current_user *)
GetUser(r) ==
    /\ req[r].pc = "user"
    /\ LET user == IF req[r].user_id \in users THEN req[r].user_id ELSE NULL
           o == UserOutcome(user)
       IN IF o = "Identity" /\ req[r].op # "me"
          THEN req' = [req EXCEPT ![r] = Handover(@, user)]
          ELSE Finish(r, o, user)
    /\ UNCHANGED <<key_file, clock, db_available, users, api_keys, flow_tables>>

(* the response is sent; get_db closes the session and the slot is free *)
Respond(r) ==
    /\ req[r].pc = "done"
    /\ req' = [req EXCEPT ![r] = Idle]
    /\ UNCHANGED <<key_file, clock, db_available, users, api_keys, flow_tables>>

----------------------------------------------------------------------------
(* The environment *)

Tick ==
    /\ clock < MaxTime
    /\ clock' = clock + 1
    /\ UNCHANGED <<key_file, db_available, users, api_keys, flow_tables, req>>

(* the parents of the rows INSERTed by transactions still open: the
   foreign-key check of an INSERT locks the row it names until the
   transaction ends, and a DELETE of that row waits for it *)
LockedParents(op) ==
    {IF op = "create_project" THEN req[q].user ELSE req[q].arg :
        q \in {x \in Reqs : req[x].op = op /\ req[x].pc = "pending"}}

(* a DELETE that leaves `us`, `ps` and `fs` goes through when it takes none
   of the locked rows with it *)
Unlocked(us, ps, fs) ==
    /\ LockedParents("create_project") \subseteq us
    /\ LockedParents("create_flow") \subseteq Ids(ps)
    /\ LockedParents("run_flow") \subseteq Ids(fs)

(* an identity is deleted; the delete cascades to its credentials, its
   projects, their flows and their runs *)
DeleteUser(u) ==
    /\ db_available
    /\ u \in users
    /\ users' = users \ {u}
    /\ api_keys' = CascadeApiKeys(api_keys, users')
    /\ projects' = CascadeProjects(projects, users')
    /\ flows' = CascadeFlows(flows, projects')
    /\ flow_runs' = CascadeRuns(flow_runs, flows')
    /\ Unlocked(users', projects', flows')
    /\ UNCHANGED <<key_file, clock, db_available, next_id, req>>

(* a project is deleted; the delete cascades to its flows and their runs *)
DeleteProject(p) ==
    /\ p \in Ids(projects)
    /\ projects' = SelectSeq(projects, LAMBDA x : x.id # p)
    /\ flows' = CascadeFlows(flows, projects')
    /\ flow_runs' = CascadeRuns(flow_runs, flows')
    /\ Unlocked(users, projects', flows')
    /\ UNCHANGED <<key_file, clock, db_available, users, api_keys, next_id, req>>

(* a flow is deleted; the delete cascades to its runs *)
DeleteFlow(f) ==
    /\ f \in Ids(flows)
    /\ flows' = SelectSeq(flows, LAMBDA x : x.id # f)
    /\ flow_runs' = CascadeRuns(flow_runs, flows')
    /\ Unlocked(users, projects, flows')
    /\ UNCHANGED <<key_file, clock, db_available, users, api_keys, projects, next_id, req>>

----------------------------------------------------------------------------
(* Initial stores of the authentication runs: every population of at most
   MaxKeys credentials, hashed from either secret under the row's own salt
   (key_hash is unique), with or without an expiry, never used; the rows
   belong to the identities in turn. *)

(* the expiries of the initial credentials: an instant the clock passes,
   and one it reaches or passes *)
Expiries == {0, 1}

KeyPopulations ==
    UNION {[1..n -> Secrets \X (Expiries \cup {NULL})] : n \in 0..MaxKeys}

OwnerOf(i) == ((i - 1) % Cardinality(UserIds)) + 1

StoreOf(p) ==
    [i \in 1..Len(p) |-> ApiKeyRow(i, OwnerOf(i), hash_api_key(p[i][1], i), p[i][2])]

NoFlowTables ==
    /\ projects = <<>>
    /\ flows = <<>>
    /\ flow_runs = <<>>
    /\ next_id = [projects |-> 1, flows |-> 1, flow_runs |-> 1,
                  users |-> Cardinality(UserIds) + 1, api_keys |-> MaxKeys + 1]

AuthInit ==
    /\ clock = 0
    /\ key_file = NoFiles
    /\ req = [r \in Reqs |-> Idle]
    /\ NoFlowTables
    /\ \/ /\ db_available = TRUE
          /\ users = UserIds
          /\ \E p \in KeyPopulations : api_keys = StoreOf(p)
       \/ /\ db_available = FALSE
          /\ users = {}
          /\ api_keys = <<>>

GetCurrentUser(r) ==
    \/ Arrive(r)
    \/ Entry(r)
    \/ QueryKeys(r)
    \/ ScanStep(r)
    \/ ScanEnd(r)
    \/ Stamp(r)
    \/ Commit(r)
    \/ Reload(r)
    \/ GetUser(r)
    \/ Respond(r)

(* requests one after the other, against every store *)
AuthNext ==
    \/ \E r \in Sequential : GetCurrentUser(r)
    \/ Tick
    \/ \E u \in UserIds : DeleteUser(u)

AuthSpec == AuthInit /\ [][AuthNext]_vars

(* Initial store of the concurrent runs: one credential, hashed from the
   presented secret, with no expiry, of the first identity *)
RaceInit ==
    /\ clock = 0
    /\ key_file = NoFiles
    /\ req = [r \in Reqs |-> Idle]
    /\ NoFlowTables
    /\ db_available = TRUE
    /\ users = UserIds
    /\ api_keys = StoreOf(<<<<KeyA, NULL>>>>)

(* requests that overlap *)
RaceNext ==
    \/ \E r \in Reqs : GetCurrentUser(r)
    \/ Tick
    \/ \E u \in UserIds : DeleteUser(u)

RaceSpec == RaceInit /\ [][RaceNext]_vars

(* Initial store of the runs on a shared secret: the same secret was
   issued to each identity (key_hash is unique, the secret is not: each
   hash has its own salt) *)
OverlapInitKeys == StoreOf([i \in 1..Cardinality(UserIds) |-> <<KeyA, NULL>>])

OverlapInit ==
    /\ clock = 0
    /\ key_file = NoFiles
    /\ req = [r \in Reqs |-> Idle]
    /\ NoFlowTables
    /\ db_available = TRUE
    /\ users = UserIds
    /\ api_keys = OverlapInitKeys

(* requests that overlap on that store, at one reading of the clock (RaceSpec
   has the clock move between them) *)
OverlapNext ==
    \/ \E r \in Reqs : GetCurrentUser(r)
    \/ \E u \in UserIds : DeleteUser(u)

OverlapSpec == OverlapInit /\ [][OverlapNext]_vars


----------------------------------------------------------------------------
(* app/api/flows.py: create_project, create_flow, run_flow. Each depends on
   get_current_user, which runs on the request's session, step by step as
   above, before the handler's body starts. *)

Ops == {"create_project", "create_flow", "run_flow"}

TableOf(op) ==
    CASE op = "create_project" -> "projects"
      [] op = "create_flow" -> "flows"
      [] op = "run_flow" -> "flow_runs"

(* the requests on their way to an INSERT into the table of `op` *)
InFlight(op) ==
    Cardinality({q \in Reqs : req[q].op = op
                              /\ req[q].pc \notin {"idle", "pending", "refresh", "done"}})

(* the last id a table hands out: the projects start with one for each
   identity *)
LastId(op) ==
    CASE op = "create_project" -> Cardinality(UserIds) + MaxProjects
      [] op = "create_flow" -> MaxFlows
      [] op = "run_flow" -> MaxRuns

(* the body or path parameter of a call: none for create_project, a
   project id for create_flow, a flow id for run_flow; one id of each kind
   is never handed out *)
Args(op) ==
    CASE op = "create_project" -> {NULL}
      [] op = "create_flow" -> 1..(LastId("create_project") + 1)
      [] op = "run_flow" -> 1..(MaxFlows + 1)

(* a call arrives with a bearer secret: that of one of the identities, or
   one that was never issued *)
CallOpUpTo(r, op, last) ==
    /\ req[r].pc = "idle"
    /\ \E key \in Bearers, arg \in Args(op) :
          /\ next_id[TableOf(op)] + InFlight(op) <= last
          /\ req' = [req EXCEPT ![r].pc = "entry", ![r].credentials = TRUE,
                                ![r].api_key = key, ![r].op = op, ![r].arg = arg]
    /\ UNCHANGED <<key_file, clock, db_available, users, api_keys, flow_tables>>

CallOp(r, op) == CallOpUpTo(r, op, LastId(op))

Call(r) == \E op \in Ops : CallOp(r, op)

(* Depends(get_current_user): lines 33-86 of app/api/auth.py, on the
   request's session *)
DependsGetCurrentUser(r) ==
    \/ Entry(r)
    \/ QueryKeys(r)
    \/ ScanStep(r)
    \/ ScanEnd(r)
    \/ Stamp(r)
    \/ Commit(r)
    \/ Reload(r)
    \/ GetUser(r)

(* mutant of InsertOutcome: the store does not enforce the foreign key *)
InsertOutcomeUnchecked(parent_exists) == "none"

(* db.commit() of an INSERT: it raises when the foreign key names no row
   (IntegrityError) *)
InsertOutcome(parent_exists) ==
    IF ~parent_exists THEN "ServerError" ELSE "none"

(* create_flow, lines 148-151: the project with this id and this owner, in
   the table `ps` *)
OwnedProjectIn(ps, project_id, owner_id) ==
    \E i \in 1..Len(ps) :
        ps[i].id = project_id /\ ps[i].owner_id = owner_id

OwnedProject(project_id, owner_id) == OwnedProjectIn(projects, project_id, owner_id)

(* mutant of OwnedFlowIn: the query leaves the owner out *)
OwnedFlowAnyOwner(fs, ps, flow_id, owner_id) ==
    \E i \in 1..Len(fs) :
        fs[i].id = flow_id /\ fs[i].project_id \in Ids(ps)

(* run_flow, lines 199-202: the flow with this id, joined to a project of
   this owner, in the tables `fs` and `ps` *)
OwnedFlowIn(fs, ps, flow_id, owner_id) ==
    \E i \in 1..Len(fs) :
        fs[i].id = flow_id /\ OwnedProjectIn(ps, fs[i].project_id, owner_id)

OwnedFlow(flow_id, owner_id) == OwnedFlowIn(flows, projects, flow_id, owner_id)

(* mutant of CheckOutcome: the handler goes on whatever the query found *)
CheckOutcomePermissive(found) == "none"

(* lines 153-157 and 204-208: 404 when the query finds nothing *)
CheckOutcome(found) == IF found THEN "none" ELSE "NotFoundOrForbidden"

(* a row takes its place in the table when its INSERT runs, and is there
   for the other sessions once its transaction has committed: the table is
   kept by id *)
InsertRow(rows, row) ==
    SelectSeq(rows, LAMBDA x : x.id < row.id)
       \o <<row>> \o SelectSeq(rows, LAMBDA x : x.id > row.id)

(* create_project, lines 111-117: Project(owner_id=current_user.id);
   db.add(project) and the flush of db.commit(): INSERT INTO projects, in
   the request's transaction. The id is drawn from the sequence, whatever
   becomes of the INSERT *)
CreateProjectInsert(r) ==
    /\ req[r].pc = "handler"
    /\ req[r].op = "create_project"
    /\ LET id == AllocId(projects, next_id.projects)
           o == InsertOutcome(req[r].user \in users)
       IN /\ next_id' = [next_id EXCEPT !.projects = @ + 1]
          /\ IF o = "none"
             THEN req' = [req EXCEPT ![r].pc = "pending", ![r].row = id]
             ELSE Finish(r, o, req[r].user)
    /\ UNCHANGED <<key_file, clock, db_available, users, api_keys, projects, flows, flow_runs>>

(* create_project, line 117: the COMMIT of db.commit() *)
CreateProjectCommit(r) ==
    /\ req[r].pc = "pending"
    /\ req[r].op = "create_project"
    /\ projects' = InsertRow(projects, ProjectRow(req[r].row, req[r].user))
    /\ req' = [req EXCEPT ![r].pc = "refresh"]
    /\ UNCHANGED <<key_file, clock, db_available, users, api_keys, flows, flow_runs, next_id>>

CreateFlowCheck(r) ==
    /\ req[r].pc = "handler"
    /\ req[r].op = "create_flow"
    /\ LET o == CheckOutcome(OwnedProject(req[r].arg, req[r].user)) IN
       IF o = "none" THEN req' = [req EXCEPT ![r].pc = "insert"]
       ELSE Finish(r, o, req[r].user)
    /\ UNCHANGED <<key_file, clock, db_available, users, api_keys, flow_tables>>

(* create_flow, lines 159-166: Flow(project_id=...); db.add(flow) and the
   flush of db.commit(): INSERT INTO flows *)
CreateFlowInsert(r) ==
    /\ req[r].pc = "insert"
    /\ req[r].op = "create_flow"
    /\ LET id == AllocId(flows, next_id.flows)
           o == InsertOutcome(req[r].arg \in Ids(projects))
       IN /\ next_id' = [next_id EXCEPT !.flows = @ + 1]
          /\ IF o = "none"
             THEN req' = [req EXCEPT ![r].pc = "pending", ![r].row = id]
             ELSE Finish(r, o, req[r].user)
    /\ UNCHANGED <<key_file, clock, db_available, users, api_keys, projects, flows, flow_runs>>

(* create_flow, line 166: the COMMIT of db.commit() *)
CreateFlowCommit(r) ==
    /\ req[r].pc = "pending"
    /\ req[r].op = "create_flow"
    /\ flows' = InsertRow(flows, FlowRow(req[r].row, req[r].arg))
    /\ req' = [req EXCEPT ![r].pc = "refresh"]
    /\ UNCHANGED <<key_file, clock, db_available, users, api_keys, projects, flow_runs, next_id>>

RunFlowCheck(r) ==
    /\ req[r].pc = "handler"
    /\ req[r].op = "run_flow"
    /\ LET o == CheckOutcome(OwnedFlow(req[r].arg, req[r].user)) IN
       IF o = "none" THEN req' = [req EXCEPT ![r].pc = "insert"]
       ELSE Finish(r, o, req[r].user)
    /\ UNCHANGED <<key_file, clock, db_available, users, api_keys, flow_tables>>

(* run_flow, lines 211-217: FlowRun(flow_id, status=PENDING);
   db.add(flow_run) and the flush of db.commit(): INSERT INTO flow_runs *)
RunFlowInsert(r) ==
    /\ req[r].pc = "insert"
    /\ req[r].op = "run_flow"
    /\ LET id == AllocId(flow_runs, next_id.flow_runs)
           o == InsertOutcome(req[r].arg \in Ids(flows))
       IN /\ next_id' = [next_id EXCEPT !.flow_runs = @ + 1]
          /\ IF o = "none"
             THEN req' = [req EXCEPT ![r].pc = "pending", ![r].row = id]
             ELSE Finish(r, o, req[r].user)
    /\ UNCHANGED <<key_file, clock, db_available, users, api_keys, projects, flows, flow_runs>>

(* run_flow, line 217: the COMMIT of db.commit(); the run is there for the
   other sessions from here on *)
RunFlowCommit(r) ==
    /\ req[r].pc = "pending"
    /\ req[r].op = "run_flow"
    /\ flow_runs' = InsertRow(flow_runs, FlowRunRow(req[r].row, req[r].arg, PENDING))
    /\ req' = [req EXCEPT ![r].pc = "refresh"]
    /\ UNCHANGED <<key_file, clock, db_available, users, api_keys, projects, flows, next_id>>

(* db.refresh(...) and the response built from the row, lines 118-126,
   167-176 and 218-227; the refresh raises when the row is gone *)
RefreshRow(r) ==
    /\ req[r].pc = "refresh"
    /\ LET rows == CASE req[r].op = "create_project" -> projects
                     [] req[r].op = "create_flow" -> flows
                     [] req[r].op = "run_flow" -> flow_runs
       IN IF req[r].row \in Ids(rows)
          THEN req' = [req EXCEPT ![r].pc = "done", ![r].outcome = "Created",
                         ![r].response = <<rows[RowOf(rows, req[r].row)]>>]
          ELSE Finish(r, "ServerError", req[r].user)
    /\ UNCHANGED <<key_file, clock, db_available, users, api_keys, flow_tables>>

----------------------------------------------------------------------------
(* The flow handlers against a store with one credential and one project
   for each identity *)

(* the credentials once each identity has verified its own, at time 0: the
   two verifications were served one after the other *)
UsedKeys ==
    LET Verified(rows, id) == WrittenBy(WriteLastUsed(rows, id, 0), id, 1)
    IN Verified(Verified(StoreOf(<<<<KeyA, NULL>>, <<KeyB, NULL>>>>), 1), 2)

FlowInit ==
    /\ clock = 0
    /\ key_file = NoFiles
    /\ req = [r \in Reqs |-> Idle]
    /\ projects = [u \in 1..Cardinality(UserIds) |-> ProjectRow(u, u)]
    /\ flows = <<>>
    /\ flow_runs = <<>>
    /\ next_id = [projects |-> Cardinality(UserIds) + 1, flows |-> 1, flow_runs |-> 1,
                  users |-> Cardinality(UserIds) + 1, api_keys |-> Cardinality(UserIds) + 1]
    /\ db_available = TRUE
    /\ users = UserIds
    /\ api_keys = UsedKeys

Handler(r) ==
    \/ Call(r)
    \/ DependsGetCurrentUser(r)
    \/ CreateProjectInsert(r)
    \/ CreateProjectCommit(r)
    \/ CreateFlowCheck(r)
    \/ CreateFlowInsert(r)
    \/ CreateFlowCommit(r)
    \/ RunFlowCheck(r)
    \/ RunFlowInsert(r)
    \/ RunFlowCommit(r)
    \/ RefreshRow(r)
    \/ Respond(r)

(* calls one after the other *)
SequentialFlowNext == \E r \in Sequential : Handler(r)

SequentialFlowSpec == FlowInit /\ [][SequentialFlowNext]_vars

(* calls during which identities, projects and flows are deleted *)
CascadeNext ==
    \/ \E r \in Sequential : Handler(r)
    \/ \E u \in UserIds : DeleteUser(u)
    \/ \E p \in Args("create_flow") : DeleteProject(p)
    \/ \E f \in Args("run_flow") : DeleteFlow(f)

CascadeSpec == FlowInit /\ [][CascadeNext]_vars

----------------------------------------------------------------------------
(* The run lifecycle. The repository declares the five states
   (FlowRunStatus) and the two timestamps and creates runs as pending; the
   operation that moves a run between states is the one section 4.2 of the
   specification describes. *)

Terminal == {COMPLETED, FAILED, CANCELLED}

(* mutant of Legal: a finished run may be started again *)
LegalOrRestart(from, to) ==
    \/ from = PENDING /\ to = RUNNING
    \/ from = RUNNING /\ to \in Terminal
    \/ from \in Terminal /\ to = RUNNING

(* Pending -> Running -> {Completed, Failed, Cancelled} *)
Legal(from, to) ==
    \/ from = PENDING /\ to = RUNNING
    \/ from = RUNNING /\ to \in Terminal

(* started_at is set on entry to Running, completed_at on entry to a
   terminal state *)
Enter(run, target, now) ==
    IF target = RUNNING
    THEN [run EXCEPT !.status = target, !.started_at = now]
    ELSE [run EXCEPT !.status = target, !.completed_at = now]

(* an attempt to move run `id` to `target`: InvalidTransition, and the run
   as it was, unless the move is legal *)
TransitionOutcome(from, to) ==
    IF Legal(from, to) THEN "Transitioned" ELSE "InvalidTransition"

TransitionRun(r, id, target) ==
    /\ req[r].pc = "idle"
    /\ id \in Ids(flow_runs)
    /\ LET i == RowOf(flow_runs, id)
           outcome == TransitionOutcome(flow_runs[i].status, target)
       IN /\ flow_runs' = IF outcome = "Transitioned"
                          THEN [flow_runs EXCEPT ![i] = Enter(@, target, clock)]
                          ELSE flow_runs
          /\ req' = [req EXCEPT ![r].pc = "done", ![r].op = "transition",
                                ![r].row = id, ![r].response = <<target>>,
                                ![r].outcome = outcome]
    /\ UNCHANGED <<key_file, clock, db_available, users, api_keys, projects, flows, next_id>>

(* the store once each identity has created a flow in its project *)
LifecycleInit ==
    /\ clock = 0
    /\ key_file = NoFiles
    /\ req = [r \in Reqs |-> Idle]
    /\ projects = [u \in 1..Cardinality(UserIds) |-> ProjectRow(u, u)]
    /\ flows = [u \in 1..Cardinality(UserIds) |-> FlowRow(u, u)]
    /\ flow_runs = <<>>
    /\ next_id = [projects |-> Cardinality(UserIds) + 1,
                  flows |-> Cardinality(UserIds) + 1, flow_runs |-> 1,
                  users |-> Cardinality(UserIds) + 1, api_keys |-> Cardinality(UserIds) + 1]
    /\ db_available = TRUE
    /\ users = UserIds
    /\ api_keys = UsedKeys

(* run_flow, app/api/flows.py lines 179-227, from the call to the response *)
RunFlow(r) ==
    \/ Len(flow_runs) < MaxRuns /\ CallOp(r, "run_flow")
    \/ DependsGetCurrentUser(r)
    \/ RunFlowCheck(r)
    \/ RunFlowInsert(r)
    \/ RunFlowCommit(r)
    \/ RefreshRow(r)
    \/ Respond(r)

(* run_flow calls that overlap, on the flows of LifecycleInit *)
RunNext ==
    \E r \in Reqs :
        \/ CallOpUpTo(r, "run_flow", MaxRows)
        \/ DependsGetCurrentUser(r)
        \/ RunFlowCheck(r)
        \/ RunFlowInsert(r)
        \/ RunFlowCommit(r)
        \/ RefreshRow(r)
        \/ Respond(r)

RunSpec == LifecycleInit /\ [][RunNext]_vars

(* calls one after the other, and runs that are moved through their states *)
LifecycleNext ==
    \/ \E r \in Sequential : RunFlow(r)
    \/ Tick
    \/ \E r \in Sequential, id \in 1..MaxRuns, target \in FlowRunStatus :
          TransitionRun(r, id, target)

LifecycleSpec == LifecycleInit /\ [][LifecycleNext]_vars

----------------------------------------------------------------------------
(* main.py: seed_admin_user, run at every start of the application (more
   than one worker may start at once); app/api/auth.py: get_admin_api_key.
   seed_admin_user is the only code that creates an identity, and every
   identity it creates has the email admin@forgeflow.local. *)

(* the seeds that have begun and will draw a user id *)
SeedsInFlight ==
    Cardinality({q \in Reqs : req[q].pc \in {"seed_count", "seed_flush"}})

(* lines 30-35: no session when the database is not configured *)
SeedBegin(r) ==
    /\ req[r].pc = "idle"
    /\ next_id.users + SeedsInFlight <= MaxRows
    /\ IF db_available
       THEN req' = [req EXCEPT ![r].pc = "seed_count", ![r].op = "seed"]
       ELSE req' = [req EXCEPT ![r].pc = "done", ![r].op = "seed",
                               ![r].outcome = "Skipped"]
    /\ UNCHANGED <<key_file, clock, db_available, users, api_keys, flow_tables>>

(* lines 38-42: user_count = db.query(User).count() *)
SeedCount(r) ==
    /\ req[r].pc = "seed_count"
    /\ LET user_count == Cardinality(users) IN
       IF user_count > 0
       THEN req' = [req EXCEPT ![r].pc = "done", ![r].outcome = "Skipped"]
       ELSE req' = [req EXCEPT ![r].pc = "seed_flush"]
    /\ UNCHANGED <<key_file, clock, db_available, users, api_keys, flow_tables>>

(* mutant of EmailTaken: users.email is not unique *)
EmailNeverTaken(us) == FALSE

(* app/models/user.py line 10, unique=True on email: the INSERT of another
   admin@forgeflow.local raises while a row with that email is there *)
EmailTaken(us) == us # {}

(* lines 45-56: db.add(admin_user); db.flush(), which INSERTs the identity
   in the open transaction, and the secret is drawn. The unique index makes
   the INSERT wait while another transaction holds an uncommitted row with
   the same email. The exception handler (lines 94-96) rolls back. *)
SeedFlush(r) ==
    /\ req[r].pc = "seed_flush"
    /\ \A q \in Reqs \ {r} : req[q].pc # "seed_commit"
    /\ next_id' = [next_id EXCEPT !.users = @ + 1]
    /\ IF EmailTaken(users)
       THEN req' = [req EXCEPT ![r].pc = "done", ![r].outcome = "SeedFailed"]
       ELSE \E api_key_plain \in Secrets :
              req' = [req EXCEPT ![r].pc = "seed_commit",
                                 ![r].user_id = next_id.users,
                                 ![r].api_key = api_key_plain]
    /\ UNCHANGED <<key_file, clock, db_available, users, api_keys,
                   projects, flows, flow_runs>>

(* lines 58-75: db.add(api_key); db.commit(), which INSERTs the credential
   (the id is drawn from the sequence) and makes the identity and its
   credential visible together or, when COMMIT raises, neither (rollback,
   lines 94-96); then the secret is logged *)
SeedCommit(r) ==
    /\ req[r].pc = "seed_commit"
    /\ next_id' = [next_id EXCEPT !.api_keys = @ + 1]
    /\ \E fails \in BOOLEAN :
         IF fails
         THEN /\ req' = [req EXCEPT ![r].pc = "done", ![r].outcome = "SeedFailed"]
              /\ UNCHANGED <<users, api_keys>>
         ELSE /\ users' = users \cup {req[r].user_id}
              /\ api_keys' = Append(api_keys,
                    ApiKeyRow(next_id.api_keys, req[r].user_id,
                              hash_api_key(req[r].api_key, next_id.api_keys), NULL))
              /\ req' = [req EXCEPT ![r].pc = "seed_open", ![r].idx = 1,
                                    ![r].outcome = "Seeded",
                                    ![r].response = <<req[r].api_key>>]
    /\ UNCHANGED <<key_file, clock, db_available, projects, flows, flow_runs>>

(* lines 80 and 86-87: /tmp/admin_api_key.txt, then
   <project_root>/admin_api_key.txt *)
SeedFiles == <<"tmp", "root">>

(* open(path, "w"): the file is created or truncated; when it raises, the
   handler of lines 91-92 logs a warning and no further file is written *)
SeedOpen(r) ==
    /\ req[r].pc = "seed_open"
    /\ \E fails \in BOOLEAN :
         IF fails
         THEN /\ req' = [req EXCEPT ![r].pc = "done"]
              /\ UNCHANGED key_file
         ELSE /\ key_file' = [key_file EXCEPT ![SeedFiles[req[r].idx]] = EmptyFile]
              /\ req' = [req EXCEPT ![r].pc = "seed_write"]
    /\ UNCHANGED <<clock, db_available, users, api_keys, flow_tables>>

(* lines 81-82 and 88-89: the two lines reach the file when it is closed;
   when the write raises, the file stays as open() left it *)
SeedWrite(r) ==
    /\ req[r].pc = "seed_write"
    /\ \E fails \in BOOLEAN :
         IF fails
         THEN /\ req' = [req EXCEPT ![r].pc = "done"]
              /\ UNCHANGED key_file
         ELSE /\ key_file' = [key_file EXCEPT
                                ![SeedFiles[req[r].idx]] = KeyFile(req[r].api_key)]
              /\ req' = IF req[r].idx < Len(SeedFiles)
                        THEN [req EXCEPT ![r].pc = "seed_open", ![r].idx = @ + 1]
                        ELSE [req EXCEPT ![r].pc = "done"]
    /\ UNCHANGED <<clock, db_available, users, api_keys, flow_tables>>

(* get_admin_api_key, line 165: the text returned in place of the key,
   by its first code points *)
PlaintextNotAvailable == <<9888, 65039>>

(* get_admin_api_key, lines 116-121: admin_api_key.txt in the working
   directory, /tmp/admin_api_key.txt, /app/admin_api_key.txt,
   ./admin_api_key.txt, as the files the seed writes *)
PossiblePaths(project_root) ==
    CASE project_root = "cwd" -> <<"root", "tmp", "root">>
      [] project_root = "/app" -> <<"tmp", "root">>
      [] OTHER -> <<"tmp">>

(* GET /admin/api-key arrives; no credentials are asked for *)
AdminCall(r) ==
    /\ req[r].pc = "idle"
    /\ req' = [req EXCEPT ![r].pc = "admin_paths", ![r].op = "get_admin_api_key",
                          ![r].idx = 1]
    /\ UNCHANGED <<key_file, clock, db_available, users, api_keys, flow_tables>>

(* lines 123-127, one iteration: path.exists() *)
AdminPath(r) ==
    /\ req[r].pc = "admin_paths"
    /\ LET paths == PossiblePaths(key_file.project_root) IN
       IF req[r].idx > Len(paths)
       THEN req' = [req EXCEPT ![r].pc = "admin_user"]
       ELSE IF key_file[paths[req[r].idx]].exists
       THEN req' = [req EXCEPT ![r].pc = "admin_read", ![r].arg = paths[req[r].idx]]
       ELSE req' = [req EXCEPT ![r].idx = @ + 1]
    /\ UNCHANGED <<key_file, clock, db_available, users, api_keys, flow_tables>>

(* lines 130-152: the file is read; when open() or read() raises (the
   exception is swallowed, lines 151-152), or without a line "API Key:" with
   a key after it, the handler falls through to the database; the next
   path is not tried *)
AdminRead(r) ==
    /\ req[r].pc = "admin_read"
    /\ \E fails \in BOOLEAN :
         LET api_key == key_file[req[r].arg].api_key IN
         IF ~fails /\ api_key # <<>>
         THEN req' = [req EXCEPT ![r].pc = "done", ![r].outcome = "Ok",
                        ![r].response = <<[api_key |-> api_key, source |-> "file"]>>]
         ELSE req' = [req EXCEPT ![r].pc = "admin_user"]
    /\ UNCHANGED <<key_file, clock, db_available, users, api_keys, flow_tables>>

(* lines 155-159: the identity with the admin email; an exception of the
   store is swallowed (lines 169-170) and the answer is the 404 of lines
   172-175 *)
AdminQueryUser(r) ==
    /\ req[r].pc = "admin_user"
    /\ \E fails \in BOOLEAN :
         IF ~db_available \/ fails \/ users = {}
         THEN req' = [req EXCEPT ![r].pc = "done", ![r].outcome = "AdminKeyNotFound"]
         ELSE \E admin_user \in users :
                req' = [req EXCEPT ![r].pc = "admin_key", ![r].user_id = admin_user]
    /\ UNCHANGED <<key_file, clock, db_available, users, api_keys, flow_tables>>

(* lines 161-168: the first credential of that identity *)
AdminQueryKey(r) ==
    /\ req[r].pc = "admin_key"
    /\ \E fails \in BOOLEAN :
         LET api_key_obj == \E i \in 1..Len(api_keys) :
                               api_keys[i].user_id = req[r].user_id
         IN IF fails \/ ~api_key_obj
            THEN req' = [req EXCEPT ![r].pc = "done", ![r].outcome = "AdminKeyNotFound"]
            ELSE req' = [req EXCEPT ![r].pc = "done", ![r].outcome = "Ok",
                           ![r].response = <<[api_key |-> PlaintextNotAvailable,
                                              source |-> "database"]>>]
    /\ UNCHANGED <<key_file, clock, db_available, users, api_keys, flow_tables>>

GetAdminApiKey(r) ==
    \/ AdminCall(r)
    \/ AdminPath(r)
    \/ AdminRead(r)
    \/ AdminQueryUser(r)
    \/ AdminQueryKey(r)

(* the store before the first start: empty, or not configured *)
SeedInit ==
    /\ clock = 0
    /\ \E project_root \in Layouts :
         key_file = [NoFiles EXCEPT !.project_root = project_root]
    /\ req = [r \in Reqs |-> Idle]
    /\ projects = <<>>
    /\ flows = <<>>
    /\ flow_runs = <<>>
    /\ next_id = [projects |-> 1, flows |-> 1, flow_runs |-> 1,
                  users |-> 1, api_keys |-> 1]
    /\ db_available \in BOOLEAN
    /\ users = {}
    /\ api_keys = <<>>

SeedAdminUser(r) ==
    \/ SeedBegin(r)
    \/ SeedCount(r)
    \/ SeedFlush(r)
    \/ SeedCommit(r)
    \/ SeedOpen(r)
    \/ SeedWrite(r)
    \/ Respond(r)

(* starts that overlap, requests for the admin key, and the identity
   deleted in between *)
SeedNext ==
    \/ \E r \in Reqs : SeedAdminUser(r)
    \/ \E r \in Reqs : GetAdminApiKey(r)
    \/ \E u \in UserIds : DeleteUser(u)

SeedSpec == SeedInit /\ [][SeedNext]_vars

----------------------------------------------------------------------------
(* app/core/security.py on long secrets: a credential is issued for a
   secret with hash_api_key and secrets are then presented to
   verify_api_key. The secrets are a run of the letter a that ends at or
   just below the 60-byte boundary, followed by up to MaxTail characters of
   one, two, three or four bytes. *)

Chars == {97, 233, 8364, 128512}

Tails == UNION {[1..n -> Chars] : n \in 0..MaxTail}

LongSecrets ==
    {[i \in 1..n |-> 97] \o t : n \in (BcryptMargin - MaxSlack)..BcryptMargin,
                                t \in Tails}

(* the longest prefix of s, in whole characters, whose encoding fits in
   `bound` bytes *)
CharPrefix(s, bound) ==
    LET fits == {k \in 0..Len(s) : Len(Utf8Encode(SubSeq(s, 1, k))) <= bound}
    IN SubSeq(s, 1, CHOOSE k \in fits : \A j \in fits : j <= k)

TruncInit ==
    /\ clock = 0
    /\ key_file = NoFiles
    /\ \E api_key \in LongSecrets :
         req = [r \in Reqs |-> [Idle EXCEPT !.api_key = api_key]]
    /\ NoFlowTables
    /\ db_available = TRUE
    /\ users = UserIds
    /\ api_keys = <<>>

(* key_hash = hash_api_key(api_key), under the salt bcrypt draws *)
IssueKey(r) ==
    /\ req[r].pc = "idle"
    /\ api_keys = <<>>
    /\ \E salt \in 1..2 :
         api_keys' = <<ApiKeyRow(1, 1, hash_api_key(req[r].api_key, salt), NULL)>>
    /\ req' = [req EXCEPT ![r].pc = "issued"]
    /\ UNCHANGED <<key_file, clock, db_available, users, flow_tables>>

(* verify_api_key(presented, key.key_hash) for the secret itself, for its
   truncation, and for the other secrets *)
VerifyKey(r) ==
    /\ req[r].pc = "issued"
    /\ \E presented \in {req[r].api_key, CharPrefix(req[r].api_key, BcryptMargin),
                         KeyA, [i \in 1..BcryptMargin |-> 97]} :
         req' = [req EXCEPT ![r].pc = "verified",
                            ![r].response = <<presented>>,
                            ![r].outcome =
                               IF verify_api_key(presented, api_keys[1].key_hash)
                               THEN "Match" ELSE "NoMatch"]
    /\ UNCHANGED <<key_file, clock, db_available, users, api_keys, flow_tables>>

TruncNext == \E r \in Sequential : IssueKey(r) \/ VerifyKey(r)

TruncSpec == TruncInit /\ [][TruncNext]_vars

----------------------------------------------------------------------------
(* Properties of get_current_user *)

(* a finished request that presented a secret to an available store *)
Verified(r) ==
    req[r].pc = "done" /\ req[r].credentials /\ db_available

Snapshot(r) == 1..Len(req[r].api_keys)

HashMatch(r, i) == verify_api_key(req[r].api_key, req[r].api_keys[i].key_hash)

(* hash match, and expires_at unset or not earlier than now *)
ValidAt(r, i, now) ==
    /\ HashMatch(r, i)
    /\ (req[r].api_keys[i].expires_at = NULL \/ req[r].api_keys[i].expires_at >= now)

(* hash match, and expires_at unset or strictly later than now *)
ValidInFuture(r, i, now) ==
    /\ HashMatch(r, i)
    /\ (req[r].api_keys[i].expires_at = NULL \/ req[r].api_keys[i].expires_at > now)

FirstValid(r, now) ==
    CHOOSE i \in Snapshot(r) :
        ValidAt(r, i, now) /\ \A j \in 1..(i - 1) : ~ValidAt(r, j, now)

(* C1, as stated: a request that presents a secret resolves to an identity
   if and only if some stored credential matches it by hash and has
   expires_at unset or in the future relative to the verification time; in
   every other case it fails with InvalidOrExpired (401). *)
C1_AsStated ==
    \A r \in Reqs : Verified(r) =>
        IF \E i \in Snapshot(r) : ValidInFuture(r, i, req[r].scan_time)
        THEN req[r].outcome = "Identity"
        ELSE req[r].outcome = "InvalidOrExpired" /\ StatusCode(req[r].outcome) = 401

(* C1, amended: with the store available, a request that presents a secret
   fails with InvalidOrExpired (401) if and only if no stored credential
   both matches it by hash and has expires_at unset or not earlier than the
   verification time (a credential expiring at T passes at T and fails at
   T+1); otherwise the first such credential is selected and the request
   ends with its owner's identity, with IdentityMissing, or with a server
   error. *)
C1_VerifyIffValid ==
    \A r \in Reqs : Verified(r) =>
        LET now == req[r].scan_time
            some == \E i \in Snapshot(r) : ValidAt(r, i, now)
        IN /\ (req[r].outcome = "InvalidOrExpired") <=> ~some
           /\ req[r].outcome = "InvalidOrExpired" => StatusCode(req[r].outcome) = 401
           /\ some => /\ req[r].matching_key = FirstValid(r, now)
                      /\ req[r].outcome \in {"Identity", "IdentityMissing", "ServerError"}
           /\ req[r].outcome = "Identity" =>
                req[r].user = req[r].api_keys[req[r].matching_key].user_id

(* a credential that expired at T is presented at T+1 and refused *)
C1_Witness ==
    \E r \in Reqs :
        /\ Verified(r)
        /\ req[r].outcome = "InvalidOrExpired"
        /\ \E i \in Snapshot(r) :
             /\ HashMatch(r, i)
             /\ req[r].api_keys[i].expires_at # NULL
             /\ req[r].api_keys[i].expires_at + 1 = req[r].scan_time

(* C2: the scan selects the first credential, in iteration order, that
   matches by hash and passes the expiry check: a hash match that is
   expired does not end the scan, and once a credential is selected no
   later one is examined or written. *)
C2_FirstValidWins ==
    \A r \in Reqs :
        /\ req[r].matching_key # NULL =>
             LET w == req[r].matching_key IN
             /\ ValidAt(r, w, req[r].scan_time)
             /\ \A j \in 1..(w - 1) : ~ValidAt(r, j, req[r].scan_time)
             /\ req[r].examined = 1..w
             /\ req[r].wrote \subseteq {req[r].api_keys[w].id}
        /\ (Verified(r) /\ req[r].matching_key = NULL) =>
             /\ req[r].examined = Snapshot(r)
             /\ req[r].wrote = {}

(* the first credential is selected although the second matches as well *)
C2_Witness ==
    \E r \in Reqs :
        /\ req[r].pc = "done"
        /\ req[r].outcome = "Identity"
        /\ req[r].matching_key = 1
        /\ Len(req[r].api_keys) >= 2
        /\ ValidAt(r, 2, req[r].scan_time)
        /\ req[r].examined = {1}

(* every credential that matches the presented secret had expired when the
   request read the store, and there is one *)
OnlyExpiredMatches(r) ==
    /\ \E i \in Snapshot(r) : HashMatch(r, i)
    /\ \A i \in Snapshot(r) :
         HashMatch(r, i) => Expired(req[r].api_keys[i], req[r].query_time)

(* C3: a verification whose only hash-matching credentials are already
   expired never selects a credential and never writes last_used_at; it
   ends with InvalidOrExpired, however often it is repeated. *)
C3_ExpiredNeverSucceeds ==
    \A r \in Reqs :
        (req[r].pc \notin {"idle", "entry", "query"} /\ OnlyExpiredMatches(r)) =>
            /\ req[r].matching_key = NULL
            /\ req[r].wrote = {}
            /\ req[r].pc \in {"scan", "done"}
            /\ req[r].pc = "done" => req[r].outcome = "InvalidOrExpired"
            /\ \A i \in Snapshot(r) : \A k \in 1..Len(api_keys) :
                 (HashMatch(r, i) /\ api_keys[k].id = req[r].api_keys[i].id) =>
                    api_keys[k].last_used_at = req[r].api_keys[i].last_used_at

C3_Witness ==
    \E r \in Reqs :
        /\ req[r].pc = "done"
        /\ OnlyExpiredMatches(r)
        /\ req[r].outcome = "InvalidOrExpired"

(* C4, as stated: last_used_at is written only by a verification that
   returns an identity: a request that ends in MissingCredential,
   InvalidOrExpired, IdentityMissing or StoreUnavailable has written no
   credential, and one that returns an identity has written the selected
   credential only. *)
C4_WrittenOnlyOnSuccess ==
    \A r \in Reqs : req[r].pc = "done" =>
        /\ req[r].outcome \in {"MissingCredential", "InvalidOrExpired",
                               "IdentityMissing", "StoreUnavailable"}
             => req[r].wrote = {}
        /\ req[r].outcome = "Identity"
             => req[r].wrote = {req[r].api_keys[req[r].matching_key].id}
        /\ req[r].wrote # {} => req[r].outcome = "Identity"

(* C6, as stated: when the secret matches an unexpired credential whose
   owner exists and the commit of last_used_at raises, the verification
   still returns the identity. *)
C6_BestEffortWrite ==
    \A r \in Reqs :
        (/\ req[r].pc = "done"
         /\ req[r].commit_raised
         /\ req[r].matching_key # NULL
         /\ req[r].api_keys[req[r].matching_key].id \in KeyIds(api_keys)
         /\ req[r].api_keys[req[r].matching_key].user_id \in users)
        => req[r].outcome = "Identity"

(* the step on which request r ends after it has selected a credential
   whose owner is not in the store *)
EndsOrphaned(r) ==
    /\ req[r].pc # "done"
    /\ req'[r].pc = "done"
    /\ req[r].matching_key # NULL
    /\ req[r].api_keys[req[r].matching_key].user_id \notin users

(* C7, as stated: a request whose secret matches an unexpired credential
   whose owner is not in the store fails with IdentityMissing, an outcome
   distinct from InvalidOrExpired, and returns no identity. *)
C7_AsStated ==
    [][\A r \in Reqs : EndsOrphaned(r) =>
          /\ req'[r].outcome = "IdentityMissing"
          /\ req'[r].outcome # "InvalidOrExpired"
          /\ req'[r].user = NULL]_vars

(* C7, amended: a request whose secret matches an unexpired credential whose
   owner is not in the store returns no identity and never InvalidOrExpired:
   it fails with IdentityMissing (404) when the user query finds no owner,
   and with a server error (500) when the owner, and with it the credential
   row, went before the commit of last_used_at or before user_id is read
   again, or when the commit raises; a selected credential whose owner is
   there at the user query returns it. *)
C7_IdentityMissing ==
    [][/\ \A r \in Reqs : EndsOrphaned(r) =>
            /\ req'[r].user = NULL
            /\ req'[r].outcome \notin {"InvalidOrExpired", "Identity"}
            /\ req[r].pc \in {"commit", "reload", "user"}
            /\ req[r].pc = "user" =>
                 /\ req'[r].outcome = "IdentityMissing"
                 /\ StatusCode(req'[r].outcome) = 404
                 /\ StatusCode(req'[r].outcome) # StatusCode("InvalidOrExpired")
            /\ req[r].pc \in {"commit", "reload"} =>
                 /\ req'[r].outcome = "ServerError"
                 /\ StatusCode(req'[r].outcome) = 500
       /\ \A r \in Reqs :
            (req[r].pc = "user" /\ req'[r].pc = "done") =>
               /\ req[r].matching_key # NULL
               /\ IF req[r].user_id \in users
                  THEN req'[r].outcome = "Identity" /\ req'[r].user = req[r].user_id
                  ELSE req'[r].outcome = "IdentityMissing" /\ req'[r].user = NULL
      ]_vars

(* the owner was deleted after user_id was read again, and the request has
   ended with IdentityMissing *)
C7_Witness ==
    \E r \in Reqs :
        /\ req[r].pc = "done"
        /\ req[r].outcome = "IdentityMissing"
        /\ ValidAt(r, req[r].matching_key, req[r].scan_time)
        /\ req[r].user_id \notin users

(* C8: a request without a bearer secret fails with MissingCredential (401)
   before anything else: no credential is read or compared, nothing is
   written, whether or not the store is available. *)
C8_MissingCredentialFirst ==
    \A r \in Reqs :
        (req[r].pc = "done" /\ ~req[r].credentials) =>
            /\ req[r].outcome = "MissingCredential"
            /\ StatusCode(req[r].outcome) = 401
            /\ req[r].api_keys = <<>>
            /\ req[r].examined = {}
            /\ req[r].matching_key = NULL
            /\ req[r].wrote = {}
            /\ req[r].user = NULL

C8_Witness ==
    \E r \in Reqs :
        /\ req[r].pc = "done"
        /\ ~req[r].credentials
        /\ ~db_available
        /\ req[r].outcome = "MissingCredential"

(* the step on which get_current_user returns the identity *)
ReturnsIdentity(r) ==
    req[r].pc = "user" /\ req'[r].pc = "done" /\ req'[r].outcome = "Identity"

SelectedId(r) == req[r].api_keys[req[r].matching_key].id

(* C5, as stated: the write of last_used_at is committed before the
   identity is returned, and at the moment it is returned a reader of the
   selected credential sees the timestamp this verification wrote. *)
C5_ReaderSeesOwnStamp ==
    [][\A r \in Reqs : ReturnsIdentity(r) =>
          /\ SelectedId(r) \in req[r].wrote
          /\ SelectedId(r) \in KeyIds(api_keys')
          /\ api_keys'[RowOf(api_keys', SelectedId(r))].last_used_at = req[r].last_used_at
      ]_vars

(* C5, amended: the write of last_used_at is committed before the identity
   is returned; at the moment it is returned a reader of the selected
   credential sees a whole committed timestamp: the one this verification
   wrote, unless another verification of the same credential has committed
   its own since (last writer wins). *)
C5_CommittedBeforeReturn ==
    [][\A r \in Reqs : ReturnsIdentity(r) =>
          /\ req[r].wrote = {SelectedId(r)}
          /\ req[r].last_used_at \in Times
          /\ ~req[r].commit_raised
          /\ SelectedId(r) \in KeyIds(api_keys')
          /\ LET row == api_keys'[RowOf(api_keys', SelectedId(r))] IN
             /\ row.last_used_at \in Times
             /\ row.written_by \in Reqs
             /\ row.written_by = r => row.last_used_at = req[r].last_used_at
      ]_vars

(* two verifications of one credential overlap, and the one that is about
   to return its identity finds the other's timestamp in the store *)
C5_Witness ==
    \E r \in Reqs :
        /\ req[r].pc = "user"
        /\ req[r].user_id \in users
        /\ SelectedId(r) \in req[r].wrote
        /\ SelectedId(r) \in KeyIds(api_keys)
        /\ api_keys[RowOf(api_keys, SelectedId(r))].last_used_at # req[r].last_used_at
        /\ api_keys[RowOf(api_keys, SelectedId(r))].written_by # r

----------------------------------------------------------------------------
(* Properties of run_flow and of the run lifecycle *)

Inserts(r) ==
    req[r].op = "run_flow" /\ req[r].pc = "pending" /\ req'[r].pc = "refresh"

Returns(r) ==
    req[r].op = "run_flow" /\ req[r].pc = "refresh" /\ req'[r].outcome = "Created"

(* C9: a successful run_flow adds exactly one Run to the flow it names:
   pending, started_at and completed_at null, with an id no other Run has,
   and leaves the Runs that were there as they were; nothing else adds a
   Run; the response carries that Run; two calls that overlap on one flow
   get two Runs with different ids. *)
C9_RunFlowAppendsPending ==
    [][/\ \A r \in Reqs : Inserts(r) =>
            LET new == flow_runs'[RowOf(flow_runs', req[r].row)] IN
            /\ Len(flow_runs') = Len(flow_runs) + 1
            /\ SelectSeq(flow_runs', LAMBDA x : x.id # req[r].row) = flow_runs
            /\ new.flow_id = req[r].arg
            /\ OwnedFlow(req[r].arg, req[r].user)
            /\ new.status = PENDING
            /\ new.started_at = NULL
            /\ new.completed_at = NULL
            /\ new.id \notin Ids(flow_runs)
            /\ new.id = req'[r].row
       /\ \A r \in Reqs : Returns(r) =>
            /\ flow_runs' = flow_runs
            /\ req'[r].response = <<flow_runs[RowOf(flow_runs, req[r].row)]>>
            /\ req'[r].response[1].status = PENDING
            /\ req'[r].response[1].started_at = NULL
            /\ req'[r].response[1].completed_at = NULL
       /\ flow_runs' # flow_runs => \E r \in Reqs : Inserts(r)
       /\ \A i, j \in 1..Len(flow_runs') :
            flow_runs'[i].id = flow_runs'[j].id => i = j
       /\ \A r, q \in Reqs :
            (/\ r # q
             /\ req'[r].op = "run_flow" /\ req'[q].op = "run_flow"
             /\ req'[r].row # NULL /\ req'[q].row # NULL)
            => req'[r].row # req'[q].row
      ]_vars

(* two calls on the same flow are answered at the same time, each with its
   own Run *)
C9_Witness ==
    /\ \A r \in Reqs :
         /\ req[r].pc = "done"
         /\ req[r].op = "run_flow"
         /\ req[r].outcome = "Created"
    /\ req[1].arg = req[2].arg
    /\ req[1].response[1].id # req[2].response[1].id
    /\ Len(flow_runs) = 2

Attempts(r) ==
    req[r].pc = "idle" /\ req'[r].pc = "done" /\ req'[r].op = "transition"

(* C10: a run changes state only from Pending to Running and from Running
   to Completed, Failed or Cancelled; an attempt to move it out of a
   terminal state (or any other illegal move) fails with InvalidTransition
   and leaves it as it was; started_at is set exactly on entry to Running
   and completed_at exactly on entry to a terminal state, started_at kept;
   a run enters the lifecycle as Pending with both unset. *)
C10_RunLifecycle ==
    [][/\ \A i \in 1..Len(flow_runs) : \A j \in 1..Len(flow_runs') :
            flow_runs[i].id = flow_runs'[j].id =>
              LET old == flow_runs[i]
                  new == flow_runs'[j]
              IN IF new.status # old.status
                 THEN /\ Legal(old.status, new.status)
                      /\ new.status = RUNNING =>
                           /\ new.started_at = clock
                           /\ new.completed_at = old.completed_at
                      /\ new.status \in Terminal =>
                           /\ new.completed_at = clock
                           /\ new.started_at = old.started_at
                 ELSE new = old
       /\ \A r \in Reqs : Attempts(r) =>
            LET old == flow_runs[RowOf(flow_runs, req'[r].row)] IN
            IF Legal(old.status, req'[r].response[1])
            THEN /\ req'[r].outcome = "Transitioned"
                 /\ flow_runs'[RowOf(flow_runs, req'[r].row)].status = req'[r].response[1]
            ELSE /\ req'[r].outcome = "InvalidTransition"
                 /\ flow_runs' = flow_runs
       /\ \A j \in 1..Len(flow_runs') :
            flow_runs'[j].id \notin Ids(flow_runs) =>
              flow_runs'[j] = FlowRunRow(flow_runs'[j].id, flow_runs'[j].flow_id, PENDING)
       /\ \A j \in 1..Len(flow_runs') :
            LET run == flow_runs'[j] IN
            /\ run.status = PENDING => run.started_at = NULL /\ run.completed_at = NULL
            /\ run.status = RUNNING => run.started_at # NULL /\ run.completed_at = NULL
            /\ run.status \in Terminal => run.started_at # NULL /\ run.completed_at # NULL
      ]_vars

(* a completed run is asked to run again and refuses *)
C10_Witness ==
    \E r \in Reqs :
      /\ req[r].pc = "done"
      /\ req[r].op = "transition"
      /\ req[r].outcome = "InvalidTransition"
      /\ req[r].response = <<RUNNING>>
      /\ \E i \in 1..Len(flow_runs) :
           /\ flow_runs[i].id = req[r].row
           /\ flow_runs[i].status = COMPLETED
           /\ flow_runs[i].started_at # flow_runs[i].completed_at

----------------------------------------------------------------------------
(* Properties of the ownership chain *)

(* the step on which a handler has authenticated its caller and runs its
   ownership query *)
Checks(r, op) ==
    req[r].pc = "handler" /\ req[r].op = op

(* C11: a create_flow call that names a project its caller does not own,
   and a run_flow call on a flow under such a project, fails with
   NotFoundOrForbidden (404) and creates nothing; every Flow is added to a
   project its creator owns and every Run to a flow whose project its
   creator owns. *)
C11_OwnershipIsolation ==
    [][/\ \A r \in Reqs :
            (\/ Checks(r, "create_flow") /\ ~OwnedProject(req[r].arg, req[r].user)
             \/ Checks(r, "run_flow") /\ ~OwnedFlow(req[r].arg, req[r].user))
            => (req'[r] # req[r] =>
                  /\ req'[r].pc = "done"
                  /\ req'[r].outcome = "NotFoundOrForbidden"
                  /\ StatusCode(req'[r].outcome) = 404
                  /\ req'[r].row = NULL
                  /\ flows' = flows
                  /\ flow_runs' = flow_runs)
       /\ \A j \in 1..Len(flows') :
            flows'[j].id \notin Ids(flows) =>
              \E r \in Reqs :
                /\ req[r].op = "create_flow" /\ req[r].pc = "pending"
                /\ req'[r].row = flows'[j].id
                /\ flows'[j].project_id = req[r].arg
                /\ OwnedProject(flows'[j].project_id, req[r].user)
       /\ \A j \in 1..Len(flow_runs') :
            flow_runs'[j].id \notin Ids(flow_runs) =>
              \E r \in Reqs :
                /\ req[r].op = "run_flow" /\ req[r].pc = "pending"
                /\ req'[r].row = flow_runs'[j].id
                /\ flow_runs'[j].flow_id = req[r].arg
                /\ OwnedFlow(flow_runs'[j].flow_id, req[r].user)
       /\ \A r \in Reqs :
            req'[r].outcome = "NotFoundOrForbidden" => req'[r].row = NULL
      ]_vars

(* identity 2 has been refused a run of a flow that exists under the
   project of identity 1, and nothing was added *)
C11_Witness ==
    \E r \in Reqs :
        /\ req[r].pc = "done"
        /\ req[r].op = "run_flow"
        /\ req[r].user = 2
        /\ req[r].outcome = "NotFoundOrForbidden"
        /\ req[r].arg \in Ids(flows)
        /\ OwnedFlow(req[r].arg, 1)
        /\ flow_runs = <<>>

(* the stores that differ from this one only in resources `u` does not own:
   any of the projects and flows of the other identities may be absent *)
ProjectsWithout(u, gone) ==
    SelectSeq(projects, LAMBDA x : x.owner_id = u \/ x.id \notin gone)

FlowsWithout(u, ps, gone) ==
    SelectSeq(CascadeFlows(flows, ps),
              LAMBDA f : OwnedFlowIn(flows, projects, f.id, u) \/ f.id \notin gone)

(* C12: to an authenticated caller, create_flow and run_flow answer a
   resource that does not exist exactly as they answer one that belongs to
   another identity: the refusal carries nothing but NotFoundOrForbidden
   (404), and whether the call is refused is the same in every store that
   differs from this one only in resources the caller does not own. *)
C12_InformationHiding ==
    [][/\ \A r \in Reqs :
            (/\ req[r].pc = "handler"
             /\ req'[r].pc = "done")
            => /\ req'[r] = [req[r] EXCEPT !.pc = "done",
                                           !.outcome = "NotFoundOrForbidden"]
               /\ StatusCode(req'[r].outcome) = 404
       /\ \A u \in UserIds :
            \A ps \in {ProjectsWithout(u, goneP) : goneP \in SUBSET Ids(projects)} :
              /\ \A arg \in Args("create_flow") :
                   CheckOutcome(OwnedProjectIn(ps, arg, u))
                      = CheckOutcome(OwnedProject(arg, u))
              /\ \A fs \in {FlowsWithout(u, ps, goneF) : goneF \in SUBSET Ids(flows)} :
                   \A arg \in Args("run_flow") :
                      CheckOutcome(OwnedFlowIn(fs, ps, arg, u))
                         = CheckOutcome(OwnedFlow(arg, u))
      ]_vars

(* identity 2 has asked to run a flow of identity 1 and is answered as it
   would be for the flow that does not exist *)
C12_Witness ==
    \E r \in Reqs :
        /\ req[r].pc = "done"
        /\ req[r].op = "run_flow"
        /\ req[r].user = 2
        /\ req[r].outcome = "NotFoundOrForbidden"
        /\ req[r].response = <<>>
        /\ OwnedFlow(req[r].arg, 1)
        /\ \E arg \in Args("run_flow") :
             /\ arg \notin Ids(flows)
             /\ CheckOutcome(OwnedFlow(arg, 2)) = req[r].outcome

(* C13: whatever is deleted while a create_flow or run_flow request is on
   its way, no row is left under a parent that is gone: every Run's flow,
   every Flow's project and every Project's owner exist, and a request whose
   parent went after its ownership check adds nothing. *)
C13_NoDanglingRows ==
    /\ \A i \in 1..Len(flow_runs) : flow_runs[i].flow_id \in Ids(flows)
    /\ \A i \in 1..Len(flows) : flows[i].project_id \in Ids(projects)
    /\ \A i \in 1..Len(projects) : projects[i].owner_id \in users
    /\ \A r \in Reqs :
         (req[r].op = "run_flow" /\ req[r].row # NULL /\ req[r].arg \notin Ids(flows))
         => req[r].row \notin Ids(flow_runs)
    /\ \A r \in Reqs :
         (req[r].op = "create_flow" /\ req[r].row # NULL /\ req[r].arg \notin Ids(projects))
         => req[r].row \notin Ids(flows)

(* the flow passed the ownership check of a run_flow request and was
   deleted before the INSERT, which the store rejected *)
C13_Witness ==
    \E r \in Reqs :
        /\ req[r].pc = "done"
        /\ req[r].op = "run_flow"
        /\ req[r].user \in users
        /\ req[r].outcome = "ServerError"
        /\ req[r].row = NULL
        /\ req[r].arg \notin Ids(flows)
        /\ projects # <<>>

----------------------------------------------------------------------------
(* Properties of the bootstrap *)

(* C14: seed_admin_user issues exactly one credential, tied to the admin
   identity, when it finds no identity, and does nothing when it finds one;
   however the invocations follow or overlap one another there is at most
   one admin identity and at most one seeded credential, and the identity
   is there only together with its credential (a seed that fails leaves
   nothing behind). *)
C14_SeedOnce ==
    [][/\ Cardinality(users') <= 1
       /\ Len(api_keys') <= 1
       /\ users' # {} <=> api_keys' # <<>>
       /\ \A i \in 1..Len(api_keys') : api_keys'[i].user_id \in users'
       /\ \A r \in Reqs : req[r].op = "seed" =>
            /\ (req'[r].outcome = "Seeded" /\ req[r].outcome # "Seeded") =>
                 /\ users = {} /\ api_keys = <<>>
                 /\ users' = {req[r].user_id}
                 /\ Len(api_keys') = 1
                 /\ api_keys'[1].user_id = req[r].user_id
                 /\ verify_api_key(req'[r].response[1], api_keys'[1].key_hash)
            /\ (req'[r].outcome # "Seeded" /\ req'[r] # req[r]) =>
                 /\ users' = users
                 /\ api_keys' = api_keys
                 /\ key_file' = key_file
       /\ \A r \in Reqs :
            (req[r].pc = "seed_count" /\ users # {}) =>
               (req'[r] # req[r] => req'[r].pc = "done" /\ req'[r].outcome = "Skipped")
      ]_vars

(* two starts both found the store empty; one seeded the admin identity
   and the other failed on the unique email and left nothing *)
C14_Witness ==
    /\ \E r \in Reqs : req[r].pc = "done" /\ req[r].outcome = "Seeded"
    /\ \E r \in Reqs : req[r].pc = "done" /\ req[r].outcome = "SeedFailed"
                       /\ req[r].user_id = NULL
    /\ Cardinality(users) = 1
    /\ Len(api_keys) = 1
    /\ next_id.users = 3

(* C15, as stated: the plaintext secret is revealed once, at issuance, and
   is never persisted: nothing but its one-way hash is stored, and no later
   operation, GET /admin/api-key included, returns it. *)
C15_PlaintextNeverPersisted ==
    /\ \A f \in {"tmp", "root"} : key_file[f].api_key \notin Secrets
    /\ \A r \in Reqs :
         (req[r].pc = "done" /\ req[r].op = "get_admin_api_key"
          /\ req[r].response # <<>>)
         => req[r].response[1].api_key \notin Secrets

----------------------------------------------------------------------------
(* Properties of the truncation *)

(* C16: hash_api_key and verify_api_key cut a secret at the same place, the
   last whole character within 60 bytes of its UTF-8 encoding; so every
   secret, however long, verifies against its own hash, the secret and its
   truncation verify against each other's hashes, and a verification
   matches exactly when the two truncations are equal. *)
C16_TruncationConsistency ==
    \A r \in Sequential : req[r].pc \in {"issued", "verified"} =>
        LET S == req[r].api_key
            cut == CharPrefix(S, BcryptMargin)
            key_hash == api_keys[1].key_hash
        IN /\ Len(Utf8Encode(cut)) <= BcryptMargin
           /\ key_hash.digest = cut
           /\ verify_api_key(S, key_hash)
           /\ verify_api_key(cut, key_hash)
           /\ verify_api_key(S, hash_api_key(cut, key_hash.salt))
           /\ req[r].pc = "verified" =>
                (req[r].outcome = "Match"
                   <=> CharPrefix(req[r].response[1], BcryptMargin) = cut)

(* a secret whose 60th byte falls inside a character has been issued and
   presented whole, and matched *)
C16_Witness ==
    \E r \in Sequential :
        /\ req[r].pc = "verified"
        /\ req[r].outcome = "Match"
        /\ req[r].response = <<req[r].api_key>>
        /\ Len(Utf8Encode(req[r].api_key)) > BcryptMargin
        /\ Len(Utf8Encode(api_keys[1].key_hash.digest)) < BcryptMargin
        /\ Len(api_keys[1].key_hash.digest) < Len(req[r].api_key)

----------------------------------------------------------------------------
(* Properties of concurrent verifications *)

(* a credential row but for its last-use bookkeeping *)
OtherFields(row) == [row EXCEPT !.last_used_at = NULL, !.written_by = NULL]

(* C17, as stated: two verifications that overlap with the same valid
   secret (nothing is deleted meanwhile) both return, under every
   interleaving, the same identity; once both have returned, the
   last_used_at of the credential is the timestamp one of the two wrote
   (the last commit wins); no step changes any other field of any
   credential. *)
C17_ConcurrentVerifications ==
    [][/\ (/\ \A r \in Reqs : req'[r].pc = "done" /\ req'[r].credentials
           /\ users' = UserIds
           /\ KeyIds(api_keys') = KeyIds(OverlapInitKeys))
          => /\ \A r \in Reqs : req'[r].outcome = "Identity"
             /\ \A r, q \in Reqs : req'[r].user = req'[q].user
             /\ \A r \in Reqs :
                  api_keys'[RowOf(api_keys',
                                  req'[r].api_keys[req'[r].matching_key].id)].last_used_at
                     \in {req'[q].last_used_at : q \in Reqs}
       /\ \A k \in KeyIds(api_keys) \cap KeyIds(api_keys') :
            OtherFields(api_keys'[RowOf(api_keys', k)])
               = OtherFields(api_keys[RowOf(api_keys, k)])
      ]_vars

(* C18: a successful verification stamps last_used_at with the reading of
   the clock against which the expiry was tested, so a credential with an
   expiry never carries a last_used_at later than its expires_at. *)
C18_StampNotAfterExpiry ==
    /\ \A r \in Sequential :
         (req[r].pc \in {"commit", "reload", "user"} /\ req[r].matching_key # NULL) =>
            req[r].last_used_at = req[r].scan_time
    /\ \A i \in 1..Len(api_keys) :
         (api_keys[i].last_used_at # NULL /\ api_keys[i].expires_at # NULL) =>
            api_keys[i].last_used_at <= api_keys[i].expires_at

----------------------------------------------------------------------------
(* Properties of the run records *)

(* C19: a Run is never changed once it is created: whatever requests and
   deletions follow, a Run that is still stored is the row it was (same
   flow_id, status, started_at and completed_at), a new Run is the pending
   row of the flow the request named, and so every stored Run has status
   pending with started_at and completed_at null. *)
C19_RunsImmutable ==
    [][/\ \A i \in 1..Len(flow_runs') :
            LET x == flow_runs'[i] IN
            /\ x.status = PENDING
            /\ x.started_at = NULL
            /\ x.completed_at = NULL
            /\ IF x.id \in Ids(flow_runs)
               THEN x = flow_runs[RowOf(flow_runs, x.id)]
               ELSE \E r \in Reqs :
                      /\ req[r].pc = "pending"
                      /\ req[r].op = "run_flow"
                      /\ req'[r].row = x.id
                      /\ x.flow_id = req[r].arg
       /\ \A r \in Reqs :
            (req'[r].op = "run_flow" /\ req'[r].row \in Ids(flow_runs')) =>
               flow_runs'[RowOf(flow_runs', req'[r].row)].flow_id = req'[r].arg
      ]_vars

(* a Run was created and its request has returned; since then a project of
   the other identity was deleted and a create_project call has finished:
   the Run is still stored under its flow *)
C19_Witness ==
    /\ flow_runs # <<>>
    /\ flow_runs[1].status = PENDING
    /\ flow_runs[1].flow_id \in Ids(flows)
    /\ Len(projects) < next_id.projects - 1
    /\ \E r \in Reqs :
         /\ req[r].pc = "done"
         /\ req[r].op = "create_project"
         /\ req[r].outcome = "Created"

====
